---- MODULE Spec2Model ----
(***************************************************************************)
(* A model of PasswordManager_Final.py: the password policy                *)
(* (validate_password), the digest (hash_password), the flat-file store    *)
(* (FilePasswordManager) and the relational store                          *)
(* (DatabasePasswordManager).                                              *)
(*                                                                         *)
(* Strings that the policy inspects are sequences of one-character         *)
(* strings.  A Python tuple and a Python list are kept apart by a "type"   *)
(* field, so that the JSON round trip (tuple -> array -> list) is visible. *)
(***************************************************************************)
EXTENDS Integers, Sequences, FiniteSets, TLC

VARIABLES
    backend,     \* which store the caller constructed: "file" or "db"
    file,        \* content of the file named self.filename
    passwords,   \* self.passwords of each FilePasswordManager instance
    pc,          \* position of each FilePasswordManager instance
    pending,     \* the add_password call each instance is in the middle of
    acked,       \* services whose add_password stored a record and returned, per store
    conn,        \* the sqlite3 connection of the DatabasePasswordManager
    rows,        \* rows of table credentials as seen through self.conn, in rowid order
    ret,         \* the last call: its arguments, the fault it met, its outcome
    candidate,   \* the string handed to validate_password (policy specification)
    verdict      \* what validate_password returned for candidate

vars == <<backend, file, passwords, pc, pending, acked, conn, rows, ret, candidate, verdict>>

----------------------------------------------------------------------------
(* Bounds and input domains *)

MaxLen == 9          \* longest candidate string of the policy specification
MaxRows == 3         \* most rows the credentials table is allowed to grow to

LF == "\n"
Alphabet == {"A", "a", "1", "!", LF}

Instances == {"m1", "m2"}
Services == {"mail", "bank"}
Usernames == {"ann", "bob"}
Times == {"T1"}               \* values of datetime.now().isoformat()

StrongSecret == <<"A", "b", "c", "d", "e", "f", "1", "!">>
WeakSecret == <<"a", "b", "c", "d", "e", "f", "1", "!">>
Secrets == {StrongSecret, WeakSecret}

----------------------------------------------------------------------------
(* validate_password: re.match(r"^(?=.*[A-Z])(?=.*\d)(?=.*[@$!%*?&]).{8,}$", s) *)

UpperChars == {"A", "B", "C", "D", "E", "F", "G", "H", "I", "J", "K", "L", "M",
               "N", "O", "P", "Q", "R", "S", "T", "U", "V", "W", "X", "Y", "Z"}
DigitChars == {"0", "1", "2", "3", "4", "5", "6", "7", "8", "9"}
SpecialChars == {"@", "$", "!", "%", "*", "?", "&"}
MinLength == 8

\* "." matches any character except a newline (no DOTALL flag)
Dot(c) == c # LF

\* (?=.*[class]) at position 0: a class character preceded only by "." characters
Lookahead(s, class) ==
    \E i \in 1..Len(s) : s[i] \in class /\ \A j \in 1..(i - 1) : Dot(s[j])

\* "$" (no MULTILINE flag): at the end of the string, or just before a final newline
AtEnd(s, n) == n = Len(s) \/ (n = Len(s) - 1 /\ s[Len(s)] = LF)

\* .{8,}$ from position 0: n >= 8 "." characters, then "$"
DotRun(s) ==
    \E n \in MinLength..Len(s) : (\A j \in 1..n : Dot(s[j])) /\ AtEnd(s, n)

validate_password(s) ==
    /\ Lookahead(s, UpperChars)
    /\ Lookahead(s, DigitChars)
    /\ Lookahead(s, SpecialChars)
    /\ DotRun(s)

\* hashlib.sha256(password.encode()).hexdigest(): deterministic and taken to be
\* collision free; the hex digest of p is written <<"sha256", p>>
hash_password(p) == <<"sha256", p>>

----------------------------------------------------------------------------
(* Values *)

None == [type |-> "None"]
Tuple(items) == [type |-> "tuple", items |-> items]
List(items) == [type |-> "list", items |-> items]

Absent == [kind |-> "absent"]                  \* no file of that name
Corrupt == [kind |-> "corrupt"]                \* empty, truncated or garbled text
Object(members) == [kind |-> "object", members |-> members]   \* one JSON object

EmptyDict == [s \in {} |-> None]

Call(op, inst, service, username, password) ==
    [op |-> op, inst |-> inst, service |-> service, username |-> username,
     password |-> password, fault |-> "none", result |-> "pending",
     value |-> None, printed |-> FALSE]

NoCall == Call("none", "-", "-", "-", <<>>)

\* the call returns normally / raises
Returned(call, value) == [call EXCEPT !.result = "ok", !.value = value]
Raised(call, error) == [call EXCEPT !.result = error]

DuplicateService == "ValueError: Service already exists."
PolicyViolation == "ValueError: Password does not meet strength requirements."

----------------------------------------------------------------------------
(* FilePasswordManager *)

\* a json.dump that writes the digest before the username
json_dump_digest_first(d) ==
    Object([s \in DOMAIN d |-> <<d[s].items[2], d[s].items[1], d[s].items[3]>>])

\* json.dump(self.passwords, f): every tuple is written as a JSON array
json_dump(d) == Object([s \in DOMAIN d |-> d[s].items])

\* json.load(f): every JSON array is read back as a list
json_load(content) == [s \in DOMAIN content.members |-> List(content.members[s])]

\* _load: the parsed file, or {} when there is no file; a file that holds no
\* complete JSON document makes json.load raise JSONDecodeError
_load(content) == IF content.kind = "absent" THEN EmptyDict ELSE json_load(content)

\* dict.get(service)
DictGet(d, service) == IF service \in DOMAIN d THEN d[service] ELSE None

\* self.passwords[service] = (username, hash_password(password), now)
DictSet(d, service, value) ==
    [s \in DOMAIN d \cup {service} |-> IF s = service THEN value ELSE d[s]]

\* __init__ when _load returns (each instance is constructed once)
FileConstructOk(i) ==
    /\ backend = "file"
    /\ pc[i] = "none"
    /\ file.kind # "corrupt"
    /\ passwords' = [passwords EXCEPT ![i] = _load(file)]
    /\ pc' = [pc EXCEPT ![i] = "idle"]
    /\ acked' = [acked EXCEPT ![i] = {}]
    /\ ret' = Returned(Call("construct", i, "-", "-", <<>>), None)
    /\ UNCHANGED <<backend, file, pending, conn, rows, candidate, verdict>>

\* __init__ when json.load raises: no new instance comes into being
FileConstructRaises(i) ==
    /\ backend = "file"
    /\ pc[i] = "none"
    /\ file.kind = "corrupt"
    /\ ret' = Raised(Call("construct", i, "-", "-", <<>>), "JSONDecodeError")
    /\ UNCHANGED <<backend, file, passwords, pc, pending, acked, conn, rows,
                   candidate, verdict>>

\* an add_password without the check for an existing service
FileAddPasswordOverwrite(i, service, username, password, now) ==
    /\ backend = "file"
    /\ pc[i] = "idle"
    /\ LET call == Call("add", i, service, username, password) IN
       IF ~validate_password(password)
       THEN /\ ret' = Raised(call, PolicyViolation)
            /\ UNCHANGED <<passwords, pc, pending>>
       ELSE /\ passwords' = [passwords EXCEPT ![i] =
                   DictSet(@, service, Tuple(<<username, hash_password(password), now>>))]
            /\ pc' = [pc EXCEPT ![i] = "save_open"]
            /\ pending' = [pending EXCEPT ![i] = call]
            /\ ret' = call
    /\ UNCHANGED <<backend, file, acked, conn, rows, candidate, verdict>>

\* an add_password that reads the file again before it looks the service up
FileAddPasswordReload(i, service, username, password, now) ==
    /\ backend = "file"
    /\ pc[i] = "idle"
    /\ LET call == Call("add", i, service, username, password)
           current == IF file.kind = "object" THEN json_load(file) ELSE passwords[i]
       IN
       IF service \in DOMAIN current
       THEN /\ ret' = Raised(call, DuplicateService)
            /\ passwords' = [passwords EXCEPT ![i] = current]
            /\ UNCHANGED <<pc, pending>>
       ELSE IF ~validate_password(password)
       THEN /\ ret' = Raised(call, PolicyViolation)
            /\ passwords' = [passwords EXCEPT ![i] = current]
            /\ UNCHANGED <<pc, pending>>
       ELSE /\ passwords' = [passwords EXCEPT ![i] =
                   DictSet(current, service,
                           Tuple(<<username, hash_password(password), now>>))]
            /\ pc' = [pc EXCEPT ![i] = "save_open"]
            /\ pending' = [pending EXCEPT ![i] = call]
            /\ ret' = call
    /\ UNCHANGED <<backend, file, acked, conn, rows, candidate, verdict>>

\* add_password up to the call of _save
FileAddPassword(i, service, username, password, now) ==
    /\ backend = "file"
    /\ pc[i] = "idle"
    /\ LET call == Call("add", i, service, username, password) IN
       IF service \in DOMAIN passwords[i]
       THEN /\ ret' = Raised(call, DuplicateService)
            /\ UNCHANGED <<passwords, pc, pending>>
       ELSE IF ~validate_password(password)
       THEN /\ ret' = Raised(call, PolicyViolation)
            /\ UNCHANGED <<passwords, pc, pending>>
       ELSE /\ passwords' = [passwords EXCEPT ![i] =
                   DictSet(@, service, Tuple(<<username, hash_password(password), now>>))]
            /\ pc' = [pc EXCEPT ![i] = "save_open"]
            /\ pending' = [pending EXCEPT ![i] = call]
            /\ ret' = call
    /\ UNCHANGED <<backend, file, acked, conn, rows, candidate, verdict>>

\* _save: open(self.filename, "w") truncates the file
SaveOpenOk(i) ==
    /\ pc[i] = "save_open"
    /\ file' = Corrupt
    /\ pc' = [pc EXCEPT ![i] = "save_dump"]
    /\ ret' = pending[i]
    /\ UNCHANGED <<backend, passwords, pending, acked, conn, rows, candidate, verdict>>

\* _save: open raises OSError, which add_password lets through
SaveOpenRaises(i) ==
    /\ pc[i] = "save_open"
    /\ pc' = [pc EXCEPT ![i] = "idle"]
    /\ ret' = Raised([pending[i] EXCEPT !.fault = "open"], "OSError")
    /\ pending' = [pending EXCEPT ![i] = NoCall]
    /\ UNCHANGED <<backend, file, passwords, acked, conn, rows, candidate, verdict>>

\* What the file holds once this instance has written its text at offset 0: its
\* own document, unless another writer's longer text was put there since this
\* instance truncated the file, and then a tail of that text may follow it
Written(i) ==
    IF file.kind = "object" THEN {json_dump(passwords[i]), Corrupt}
    ELSE {json_dump(passwords[i])}

\* _save: json.dump and the close of the file succeed; add_password returns
SaveDumpOk(i) ==
    /\ pc[i] = "save_dump"
    /\ file' \in Written(i)
    /\ pc' = [pc EXCEPT ![i] = "idle"]
    /\ acked' = [acked EXCEPT ![i] = @ \cup {pending[i].service}]
    /\ ret' = Returned(pending[i], None)
    /\ pending' = [pending EXCEPT ![i] = NoCall]
    /\ UNCHANGED <<backend, passwords, conn, rows, candidate, verdict>>

\* _save: a write raises OSError part way; nothing or a part of the text is written
SaveDumpRaises(i) ==
    /\ pc[i] = "save_dump"
    /\ file' \in {file, Corrupt}
    /\ pc' = [pc EXCEPT ![i] = "idle"]
    /\ ret' = Raised([pending[i] EXCEPT !.fault = "write"], "OSError")
    /\ pending' = [pending EXCEPT ![i] = NoCall]
    /\ UNCHANGED <<backend, passwords, acked, conn, rows, candidate, verdict>>

\* get_password
FileGetPassword(i, service) ==
    /\ backend = "file"
    /\ pc[i] = "idle"
    /\ ret' = Returned(Call("get", i, service, "-", <<>>), DictGet(passwords[i], service))
    /\ UNCHANGED <<backend, file, passwords, pc, pending, acked, conn, rows,
                   candidate, verdict>>

----------------------------------------------------------------------------
(* DatabasePasswordManager *)

Db == "db"

\* one row of table credentials, as sqlite3 hands it back
Row(service, username, digest, now) == Tuple(<<service, username, digest, now>>)

\* __init__: connect, CREATE TABLE IF NOT EXISTS, commit
DbConstruct ==
    /\ backend = "db"
    /\ conn = "none"
    /\ conn' = "open"
    /\ ret' = Returned(Call("construct", Db, "-", "-", <<>>), None)
    /\ UNCHANGED <<backend, file, passwords, pc, pending, acked, rows, candidate, verdict>>

\* What the connection sees after the INSERT and the commit: a failed execute
\* inserts nothing; a failed commit either rolls the row back or leaves it in
\* the connection's open transaction
Inserted(row, fault) ==
    CASE fault = "none" -> {Append(rows, row)}
      [] fault = "execute" -> {rows}
      [] fault = "commit" -> {rows, Append(rows, row)}

DbFaults == {"none", "execute", "commit"}

\* add_password: a sqlite3.Error is caught, printed, and the call returns
DbAddPassword(service, username, password, now, fault) ==
    /\ backend = "db"
    /\ conn = "open"
    /\ Len(rows) < MaxRows
    /\ LET call == Call("add", Db, service, username, password) IN
       IF ~validate_password(password)
       THEN /\ fault = "none"
            /\ ret' = Raised(call, PolicyViolation)
            /\ UNCHANGED <<rows, acked>>
       ELSE /\ rows' \in Inserted(Row(service, username, hash_password(password), now), fault)
            /\ acked' = [acked EXCEPT ![Db] = IF fault = "none" THEN @ \cup {service} ELSE @]
            /\ ret' = Returned([call EXCEPT !.fault = fault,
                                            !.printed = (fault # "none")], None)
    /\ UNCHANGED <<backend, file, passwords, pc, pending, conn, candidate, verdict>>

\* SELECT * FROM credentials WHERE service = ?  in rowid order
Select(table, service) == SelectSeq(table, LAMBDA r : r.items[1] = service)

\* a fetch that hands back the most recently inserted row of the result
fetch_latest(result) == IF result = <<>> THEN None ELSE result[Len(result)]

\* cursor.fetchone(): the first row of the result, or None
fetchone(result) == IF result = <<>> THEN None ELSE Head(result)

\* get_password
DbGetPassword(service) ==
    /\ backend = "db"
    /\ conn = "open"
    /\ ret' = Returned(Call("get", Db, service, "-", <<>>), fetchone(Select(rows, service)))
    /\ UNCHANGED <<backend, file, passwords, pc, pending, acked, conn, rows,
                   candidate, verdict>>

----------------------------------------------------------------------------
(* The stores driven by a caller *)

Init ==
    /\ backend \in {"file", "db"}
    /\ file = Absent
    /\ passwords = [i \in Instances |-> EmptyDict]
    /\ pc = [i \in Instances |-> "none"]
    /\ pending = [i \in Instances |-> NoCall]
    /\ acked = [i \in Instances \cup {Db} |-> {}]
    /\ conn = "none"
    /\ rows = <<>>
    /\ ret = NoCall
    /\ candidate = <<>>
    /\ verdict = validate_password(<<>>)

Next ==
    \/ \E i \in Instances : FileConstructOk(i)
    \/ \E i \in Instances : FileConstructRaises(i)
    \/ \E i \in Instances, s \in Services, u \in Usernames, p \in Secrets, t \in Times :
          FileAddPassword(i, s, u, p, t)
    \/ \E i \in Instances : SaveOpenOk(i)
    \/ \E i \in Instances : SaveOpenRaises(i)
    \/ \E i \in Instances : SaveDumpOk(i)
    \/ \E i \in Instances : SaveDumpRaises(i)
    \/ \E i \in Instances, s \in Services : FileGetPassword(i, s)
    \/ DbConstruct
    \/ \E s \in Services, u \in Usernames, p \in Secrets, t \in Times, f \in DbFaults :
          DbAddPassword(s, u, p, t, f)
    \/ \E s \in Services : DbGetPassword(s)

Spec == Init /\ [][Next]_vars

----------------------------------------------------------------------------
(* The policy on its own: candidate strings grown one character at a time *)

InitPolicy ==
    /\ Init
    /\ backend = "file"

Extend(c) ==
    /\ Len(candidate) < MaxLen
    /\ candidate' = Append(candidate, c)
    /\ verdict' = validate_password(candidate')
    /\ UNCHANGED <<backend, file, passwords, pc, pending, acked, conn, rows, ret>>

NextPolicy == \E c \in Alphabet : Extend(c)

SpecPolicy == InitPolicy /\ [][NextPolicy]_vars

----------------------------------------------------------------------------
(* Steps and observations the properties speak about *)

Stores == Instances \cup {Db}

\* this step is a call of add_password on store i (for the flat file: up to _save)
AddCalled(i) ==
    /\ ret'.op = "add"
    /\ ret'.inst = i
    /\ i \in Instances => pc[i] = "idle"

\* this step ends a call of add_password on flat-file instance i inside _save
SaveEnded(i) ==
    /\ pc[i] \in {"save_open", "save_dump"}
    /\ pc'[i] = "idle"

\* this step is a call of get_password on store i
GetCalled(i) ==
    /\ ret'.op = "get"
    /\ ret'.inst = i

StoreUnchanged == file' = file /\ passwords' = passwords /\ rows' = rows

\* the persisted file holds exactly the records of mapping d
SameRecords(d, content) ==
    CASE content.kind = "absent" -> DOMAIN d = {}
      [] content.kind = "corrupt" -> FALSE
      [] content.kind = "object" ->
            /\ DOMAIN content.members = DOMAIN d
            /\ \A s \in DOMAIN d : content.members[s] = d[s].items

\* store i holds a record for the service that no successful add_password of
\* this instance wrote and that was not read from the file at construction either
NeverStored(i, service) ==
    /\ service \notin acked[i]
    /\ i \in Instances => DictGet(passwords[i], service).type # "list"

----------------------------------------------------------------------------
(* C1: on both stores, add_password with a secret that validate_password       *)
(* rejects raises the policy error and no other, whatever the service (a       *)
(* service that already has a record included), and leaves the mapping, the    *)
(* file and the table as they were.                                            *)
C1_WeakSecretIsPolicyViolation ==
    [][\A i \in Stores :
          (AddCalled(i) /\ ~validate_password(ret'.password))
             => (ret'.result = PolicyViolation /\ StoreUnchanged)]_vars

(* C2: flat file: a service has at most one record.  An add_password for a     *)
(* service without a record and with a strong secret stores the given record   *)
(* and returns normally once _save has written it; every add_password for a    *)
(* service that has a record raises the duplicate-service error; a record,     *)
(* once in the mapping, stays what it is, and get_password returns it.         *)
C2_OneRecordPerService ==
    [][\A i \in Instances :
          /\ \A s \in DOMAIN passwords[i] :
                s \in DOMAIN passwords'[i] /\ passwords'[i][s] = passwords[i][s]
          /\ (AddCalled(i) /\ ret'.service \in DOMAIN passwords[i])
                => ret'.result = DuplicateService
          /\ (AddCalled(i) /\ ret'.service \notin DOMAIN passwords[i]
                /\ validate_password(ret'.password))
                => /\ ret'.result = "pending"
                   /\ \E t \in Times : DictGet(passwords'[i], ret'.service) =
                         Tuple(<<ret'.username, hash_password(ret'.password), t>>)
          /\ (SaveEnded(i) /\ ret'.fault = "none")
                => (ret'.result = "ok" /\ ret'.service \in acked'[i])
          /\ GetCalled(i) => ret'.value = DictGet(passwords[i], ret'.service)]_vars

C2_Witness ==
    /\ ret.op = "add"
    /\ ret.inst \in Instances
    /\ ret.result = DuplicateService
    /\ validate_password(ret.password)
    /\ ret.service \in acked[ret.inst]
    /\ passwords[ret.inst][ret.service].items[1] # ret.username

\* no other instance has rewritten the file since this call of _save truncated it
SoleWriter == file.kind # "object"

(* C3: flat file: once add_password(service, username, secret) has returned    *)
(* normally (no other writer having rewritten the file meanwhile), what a      *)
(* fresh FilePasswordManager loads from the file gives, for that service, the  *)
(* given username and hash_password(secret), and gives every record of the     *)
(* first instance with the same username, digest and created_at.               *)
C3_RoundTrip ==
    [][\A i \in Instances :
          (SaveEnded(i) /\ ret'.result = "ok" /\ SoleWriter)
             => /\ file'.kind = "object"
                /\ LET fresh == _load(file')
                       got == DictGet(fresh, ret'.service)
                   IN  /\ got # None
                       /\ got.items[1] = ret'.username
                       /\ got.items[2] = hash_password(ret'.password)
                       /\ \A s \in DOMAIN passwords[i] :
                             DictGet(fresh, s) = List(passwords[i][s].items)]_vars

C3_Witness ==
    \E i, j \in Instances :
        /\ i # j
        /\ acked[i] = Services
        /\ acked[j] = {}
        /\ ret.op = "get"
        /\ ret.inst = j
        /\ ret.value = List(passwords[i][ret.service].items)
        /\ passwords[j] = _load(file)
        /\ passwords[i]["mail"].items[1] # passwords[i]["bank"].items[1]

(* C4: on both stores get_password returns normally and changes nothing, and   *)
(* for a service without a stored record, in particular one whose every        *)
(* add_password failed, it returns None.                                       *)
C4_AbsentServiceIsNone ==
    [][\A i \in Stores :
          GetCalled(i)
             => /\ ret'.result = "ok"
                /\ StoreUnchanged
                /\ NeverStored(i, ret'.service) => ret'.value = None]_vars

(* C5: an add_password whose persistence step fails raises to its caller: it   *)
(* does not return normally, and the store prints nothing.                     *)
C5_FaultIsRaised ==
    ret.op = "add"
       => /\ ~ret.printed
          /\ ret.fault # "none" => ret.result \notin {"ok", "pending"}

(* C6: at every point of an add_password call a reader of the file finds a     *)
(* complete mapping (the one before the call or the one after it), never an    *)
(* empty or partly written file.                                               *)
C6_FileAlwaysComplete == file.kind \in {"absent", "object"}

\* the four conditions of the policy, each over the whole string
HasChar(s, class) == \E k \in 1..Len(s) : s[k] \in class

(* C7: validate_password(s) is true exactly when s has at least 8 characters   *)
(* and holds an uppercase letter, a decimal digit and one of @ $ ! % * ? &     *)
(* anywhere in it, line breaks in s included.                                  *)
C7_PolicyIsTheFourConditions ==
    verdict = (/\ Len(candidate) >= MinLength
               /\ HasChar(candidate, UpperChars)
               /\ HasChar(candidate, DigitChars)
               /\ HasChar(candidate, SpecialChars))

(* C8: relational store: service is not unique.  Every add_password with a     *)
(* strong secret whose INSERT and commit complete appends exactly one row,     *)
(* the given one; no step changes or removes an existing row; get_password     *)
(* changes nothing and returns the earliest inserted row of the service        *)
(* (None when the service has no row), so it is the same row on every call.    *)
C8_AppendAndEarliestRow ==
    [][/\ Len(rows') >= Len(rows) /\ SubSeq(rows', 1, Len(rows)) = rows
       /\ (AddCalled(Db) /\ validate_password(ret'.password) /\ ret'.fault = "none")
             => /\ Len(rows') = Len(rows) + 1
                /\ \E t \in Times : rows'[Len(rows')] =
                      Row(ret'.service, ret'.username, hash_password(ret'.password), t)
       /\ GetCalled(Db)
             => /\ rows' = rows
                /\ \/ /\ \A k \in 1..Len(rows) : rows[k].items[1] # ret'.service
                      /\ ret'.value = None
                   \/ \E k \in 1..Len(rows) :
                         /\ rows[k].items[1] = ret'.service
                         /\ \A j \in 1..(k - 1) : rows[j].items[1] # ret'.service
                         /\ ret'.value = rows[k]]_vars

C8_Witness ==
    /\ ret.op = "get"
    /\ ret.inst = Db
    /\ ret.service \in acked[Db]
    /\ \E j, k \in 1..Len(rows) :
          /\ j < k
          /\ rows[j].items[1] = ret.service
          /\ rows[k].items[1] = ret.service
          /\ rows[j].items[2] # rows[k].items[2]
          /\ ret.value = rows[j]

(* C9: flat file, two instances on one filename: an instance's mapping changes *)
(* only by its own add_password (it never takes in what another instance       *)
(* wrote), and a _save that completes leaves in the file the writer's own      *)
(* mapping and nothing else.  So a record that another instance added and got  *)
(* acknowledged is lost, and both instances can add the same service.          *)
C9_OwnSnapshotRewritesFile ==
    [][\A i \in Instances :
          /\ (pc[i] # "none" /\ passwords'[i] # passwords[i])
                => /\ AddCalled(i)
                   /\ DOMAIN passwords'[i] = DOMAIN passwords[i] \cup {ret'.service}
          /\ (SaveEnded(i) /\ ret'.result = "ok" /\ file'.kind = "object")
                => SameRecords(passwords[i], file')]_vars

C9_Witness ==
    \E i, j \in Instances :
        /\ i # j
        /\ pc[i] = "idle" /\ pc[j] = "idle"
        /\ file.kind = "object"
        /\ \E s \in acked[i] : s \notin DOMAIN file.members
        /\ \E s \in acked[i] \cap acked[j] :
              /\ file.members[s] = passwords[j][s].items
              /\ file.members[s] # passwords[i][s].items

(* C10: one flat-file instance: after every add_password call that has ended,  *)
(* normally or by raising, self.passwords and the file hold the same records.  *)
C10_MemoryMatchesFile ==
    \A i \in Instances :
        (/\ \A j \in Instances \ {i} : pc[j] = "none"
         /\ ret.op = "add" /\ ret.inst = i /\ ret.result # "pending")
           => SameRecords(passwords[i], file)

====
